---- MODULE Spec2Model ----
(***************************************************************************)
(* Verification model of the pattern demos of the repository:              *)
(*   - the Composite file-system tree (Files / Folder),                    *)
(*   - the Visitor dispatch over Book / Clothes / Electronics / Stationary,*)
(*   - the Command log (Inventory, AddInventory, RemoveInventory, Logging),*)
(*   - the State machine of Documents (Draft / Review / Publish),          *)
(*   - the Memento store of Database and CareTaker,                        *)
(*   - the Chain of Responsibility of the cash notes,                      *)
(*   - the Iterator over an array and MusicPlayer,                         *)
(*   - the Proxies DatabaseProxy and DocumentReaderProxy.                  *)
(* Each demo is a specification of its own (SpecTree, SpecVisitor,         *)
(* SpecCmd, SpecLogs, SpecState, SpecMemento, SpecChain, SpecIter,         *)
(* SpecProxy) over the module's variables; the variables of the other      *)
(* demos stay at their initial values.                                     *)
(***************************************************************************)
EXTENDS Integers, Sequences, FiniteSets, TLC

VARIABLES
    childs,        \* Folder.childs: folder object -> sequence of item objects
    size,          \* Files.size: file object -> number given to the constructor
    pc,            \* position in the script being run (0: not in a script)
    lastCall,      \* the most recent call: [op, target, arg]
    ret,           \* value returned by the most recent call ([has, val])
    out,           \* console lines written by the most recent call
    err,           \* error thrown by the most recent call ("none" if it returned)
    item,          \* Visitor items: object -> [variant, name, price]
    currentStock,  \* Inventory.currentStock: inventory object -> number
    action,        \* InventoryAction objects: object -> [type, inventory, quantity]
    operations,    \* Logging.operations: the ordered log of action objects
    stockBefore,   \* currentStock as it was when the most recent call started
    prevCall,      \* the call made before the most recent one
    ncalls,        \* number of calls made on the Command objects so far
    called,        \* methods the most recent call invoked on other objects, in order
    logs,          \* Logging.operations of each of several Logging objects
    state,         \* Documents.state: document object -> class of its state object
    trail,         \* the operations called on each document so far, in order
    data,          \* Database (Memento demo): its fields [id, name]
    careTaker,     \* CareTaker.database: the stored Momento objects, in order
    arrayList,     \* ArrayIterators.arrayList
    index,         \* ArrayIterators.index
    emitted,       \* the elements the iterator has logged so far, in order
    playing,       \* TRUE while MusicPlayer.playAllSongs is inside its loop
    database,      \* DatabaseProxy.database: proxy -> 0 (null) or the instance held
    documentReader,\* DocumentReaderProxy.documentReader: proxy -> 0 (null) or instance
    isPremium,     \* User.isPremium of the user each reader proxy was given
    constructed    \* classes of the real objects constructed so far, in order;
                   \* an instance is named by its position in this sequence

vars == <<childs, size, pc, lastCall, ret, out, err, item, currentStock, action,
          operations, stockBefore, prevCall, ncalls, called, logs, state, trail,
          data, careTaker, arrayList, index, emitted, playing, database,
          documentReader, isPremium, constructed>>

treeVars == <<childs, size, pc>>
visitorVars == <<item>>
cmdVars == <<currentStock, action, operations, stockBefore, prevCall, ncalls>>
logsVars == <<logs>>
stateVars == <<state, trail>>
mementoVars == <<data, careTaker>>
iterVars == <<arrayList, index, emitted, playing>>
proxyVars == <<database, documentReader, isPremium, constructed>>
laterVars == <<logsVars, stateVars, mementoVars, iterVars, proxyVars>>

\* the values the variables of a demo have while another demo runs
IdleLogs == logs = <<>>
IdleState == state = <<>> /\ trail = <<>>
IdleMemento == data = <<>> /\ careTaker = <<>>
IdleIter == arrayList = <<>> /\ index = 0 /\ emitted = <<>> /\ playing = FALSE
IdleProxy ==
    database = <<>> /\ documentReader = <<>> /\ isPremium = <<>> /\ constructed = <<>>
IdleLater == IdleLogs /\ IdleState /\ IdleMemento /\ IdleIter /\ IdleProxy

NoRet == [has |-> FALSE, val |-> 0]
Returned(v) == [has |-> TRUE, val |-> v]
NoCall == [op |-> "none", target |-> "none", arg |-> "none"]
CallOf(op, target, arg) == [op |-> op, target |-> target, arg |-> arg]

(***************************************************************************)
(* Bounds of the model.                                                    *)
(***************************************************************************)
\* addItem calls made outside the client script (total number of child slots)
MaxAdds == 2
\* depth of nested calls the engine allows before it throws RangeError
StackLimit == 8
\* calls made on the Command objects in one run
MaxCalls == 4
\* calls made on the Documents objects in one run
MaxOps == 5
\* updateData calls made on the Database in one run
MaxUpdates == 3
\* longest array handed to the iterator, besides the client's four songs
MaxLen == 3
\* largest amount asked from the cash chain, besides the client's 5600
MaxAmount == 3100

(***************************************************************************)
(* Composite: Files and Folder objects.  The objects are the ones the      *)
(* client code constructs; every name is distinct.                         *)
(***************************************************************************)
FilesObjs == {"file1", "file2", "file3"}
FolderObjs == {"documents", "pictures", "home"}
Items == FilesObjs \cup FolderObjs

name == [o \in Items |->
           CASE o = "file1" -> "Readme.md"
             [] o = "file2" -> "photo.jpg"
             [] o = "file3" -> "data.csv"
             [] o = "documents" -> "Documents"
             [] o = "pictures" -> "Pictures"
             [] o = "home" -> "Home"]

\* sizes the client code passes to new Files(name, size)
ClientSizes == [o \in FilesObjs |->
                  CASE o = "file1" -> 100
                    [] o = "file2" -> 1500
                    [] o = "file3" -> 300]

\* other constructor inputs: the sizes of the documented output, with a
\* zero-size leaf
OtherSizes == [o \in FilesObjs |->
                  CASE o = "file1" -> 5
                    [] o = "file2" -> 0
                    [] o = "file3" -> 300]

SizeInputs == {ClientSizes, OtherSizes}

\* A console line of printStructure or delete.  `indent` is the number of
\* " " units the line starts with; `text` is the fixed text logged with the name.
Line(kind, indent, nm) == [kind |-> kind, indent |-> indent, name |-> nm]

\* A result of a call that may throw: err is TRUE when RangeError (call stack
\* exceeded) ended it; val / lines is what was produced up to that point.
Val(v) == [err |-> FALSE, val |-> v]
Thrown == [err |-> TRUE, val |-> 0]

RECURSIVE getSize(_, _)
RECURSIVE FolderGetSizeLoop(_, _, _, _)
RECURSIVE FolderGetSizeOverwrite(_, _, _, _)

\* mutant of FilesGetSize: a size of 0 is taken as missing and reported as 1
FilesGetSizeOrOne(o) == IF size[o] = 0 THEN 1 ELSE size[o]

\* Files.getSize
FilesGetSize(o) == size[o]

\* mutant of FolderGetSizeLoop: `total = item.getSize()` instead of `+=`
FolderGetSizeOverwrite(o, i, total, depth) ==
    IF i > Len(childs[o]) THEN Val(total)
    ELSE LET r == getSize(childs[o][i], depth + 1) IN
         IF r.err THEN Thrown
         ELSE FolderGetSizeOverwrite(o, i + 1, r.val, depth)

\* Folder.getSize: the for..of loop from child i on, with total so far
FolderGetSizeLoop(o, i, total, depth) ==
    IF i > Len(childs[o]) THEN Val(total)
    ELSE LET r == getSize(childs[o][i], depth + 1) IN
         IF r.err THEN Thrown
         ELSE FolderGetSizeLoop(o, i + 1, total + r.val, depth)

\* mutant of getSize: a nested folder answers with the total it had when it
\* was constructed (0) instead of walking its children again
getSizeStale(o, depth) ==
    IF depth > StackLimit THEN Thrown
    ELSE IF o \in FilesObjs THEN Val(FilesGetSize(o))
    ELSE IF depth > 1 THEN Val(0)
    ELSE FolderGetSizeLoop(o, 1, 0, depth)

\* item.getSize(), dispatched on the object's class, at call depth `depth`
getSize(o, depth) ==
    IF depth > StackLimit THEN Thrown
    ELSE IF o \in FilesObjs THEN Val(FilesGetSize(o))
    ELSE FolderGetSizeLoop(o, 1, 0, depth)

Out(lines) == [err |-> FALSE, lines |-> lines]
OutThrown(lines) == [err |-> TRUE, lines |-> lines]

RECURSIVE printStructure(_, _, _)
RECURSIVE FolderPrintLoop(_, _, _, _, _)
RECURSIVE FolderPrintLoopReversed(_, _, _, _, _)

\* Files.printStructure: console.log(indent + this.name)
FilesPrintStructure(o, indent) == <<Line("file", indent, name[o])>>

\* Folder.printStructure, first statement: console.log(this.name, "/")
FolderPrintOwn(o, indent) == <<Line("folder", 0, name[o])>>

\* mutant of FolderPrintLoop: the children are visited last to first
FolderPrintLoopReversed(o, i, indent, lines, depth) ==
    IF i > Len(childs[o]) THEN Out(lines)
    ELSE LET r == printStructure(childs[o][Len(childs[o]) + 1 - i], indent + 1, depth + 1) IN
         IF r.err THEN OutThrown(lines \o r.lines)
         ELSE FolderPrintLoopReversed(o, i + 1, indent, lines \o r.lines, depth)

\* Folder.printStructure: the for..of loop from child i on
FolderPrintLoop(o, i, indent, lines, depth) ==
    IF i > Len(childs[o]) THEN Out(lines)
    ELSE LET r == printStructure(childs[o][i], indent + 1, depth + 1) IN
         IF r.err THEN OutThrown(lines \o r.lines)
         ELSE FolderPrintLoop(o, i + 1, indent, lines \o r.lines, depth)

printStructure(o, indent, depth) ==
    IF depth > StackLimit THEN OutThrown(<<>>)
    ELSE IF o \in FilesObjs THEN Out(FilesPrintStructure(o, indent))
    ELSE FolderPrintLoop(o, 1, indent, FolderPrintOwn(o, indent), depth)

RECURSIVE delete(_, _)
RECURSIVE FolderDeleteLoop(_, _, _, _)

\* Files.delete: console.log("Deleting File: ", this.name)
FilesDelete(o) == <<Line("Deleting File: ", 0, name[o])>>

\* Folder.delete, last statement: console.log("Deleting folder: ", this.name)
FolderDeleteOwn(o) == <<Line("Deleting folder: ", 0, name[o])>>

\* mutant of FolderDeleteTail: the folder reports before its children
FolderDeleteTailFirst(o, lines) == FolderDeleteOwn(o) \o lines

\* Folder.delete: the lines of the loop, then the folder's own report
FolderDeleteTail(o, lines) == lines \o FolderDeleteOwn(o)

\* Folder.delete: the for..of loop from child i on
FolderDeleteLoop(o, i, lines, depth) ==
    IF i > Len(childs[o]) THEN Out(FolderDeleteTail(o, lines))
    ELSE LET r == delete(childs[o][i], depth + 1) IN
         IF r.err THEN OutThrown(lines \o r.lines)
         ELSE FolderDeleteLoop(o, i + 1, lines \o r.lines, depth)

delete(o, depth) ==
    IF depth > StackLimit THEN OutThrown(<<>>)
    ELSE IF o \in FilesObjs THEN Out(FilesDelete(o))
    ELSE FolderDeleteLoop(o, 1, <<>>, depth)

\* Folder.delete leaves this.childs as it is: nothing is removed from the array
ChildsAfterDelete(o) == childs

ErrOf(r) == IF r.err THEN "RangeError" ELSE "none"

\* Folder.addItem(item): this.childs.push(item)
DoAddItem(folder, it) ==
    /\ childs' = [childs EXCEPT ![folder] = Append(@, it)]
    /\ lastCall' = CallOf("addItem", folder, it)
    /\ ret' = NoRet
    /\ out' = <<>>
    /\ err' = "none"

DoGetSize(o) ==
    LET r == getSize(o, 1) IN
    /\ lastCall' = CallOf("getSize", o, "none")
    /\ ret' = IF r.err THEN NoRet ELSE Returned(r.val)
    /\ out' = <<>>
    /\ err' = ErrOf(r)
    /\ UNCHANGED childs

\* printStructure(""), the indent the client passes
DoPrintStructure(o) ==
    LET r == printStructure(o, 0, 1) IN
    /\ lastCall' = CallOf("printStructure", o, "none")
    /\ ret' = NoRet
    /\ out' = r.lines
    /\ err' = ErrOf(r)
    /\ UNCHANGED childs

DoDelete(o) ==
    LET r == delete(o, 1) IN
    /\ lastCall' = CallOf("delete", o, "none")
    /\ ret' = NoRet
    /\ out' = r.lines
    /\ err' = ErrOf(r)
    /\ childs' = ChildsAfterDelete(o)

\* The client code: the statements after the constructors, in order
ClientCode == <<
    CallOf("addItem", "documents", "file1"),
    CallOf("addItem", "documents", "file3"),
    CallOf("addItem", "documents", "file2"),
    CallOf("addItem", "home", "documents"),
    CallOf("addItem", "home", "pictures"),
    CallOf("printStructure", "home", "none"),
    CallOf("getSize", "home", "none"),
    CallOf("delete", "home", "none") >>

\* A host program that asks for the size while it is still building the tree:
\* documents is attached to home first and filled afterwards
InterleavedCode == <<
    CallOf("addItem", "home", "documents"),
    CallOf("addItem", "documents", "file1"),
    CallOf("getSize", "home", "none"),
    CallOf("addItem", "documents", "file3"),
    CallOf("getSize", "home", "none") >>

Do(c) ==
    CASE c.op = "addItem" -> DoAddItem(c.target, c.arg)
      [] c.op = "getSize" -> DoGetSize(c.target)
      [] c.op = "printStructure" -> DoPrintStructure(c.target)
      [] c.op = "delete" -> DoDelete(c.target)

\* number of addItem calls made so far (nothing ever leaves a childs array)
TotalChildren ==
    Len(childs["documents"]) + Len(childs["pictures"]) + Len(childs["home"])

InitOthersOfTree ==
    /\ item = <<>>
    /\ currentStock = <<>>
    /\ action = <<>>
    /\ operations = <<>>
    /\ stockBefore = <<>>
    /\ prevCall = NoCall
    /\ ncalls = 0
    /\ called = <<>>
    /\ IdleLater

InitTree ==
    /\ childs = [f \in FolderObjs |-> <<>>]
    /\ size \in SizeInputs
    /\ pc = 1
    /\ lastCall = NoCall
    /\ ret = NoRet
    /\ out = <<>>
    /\ err = "none"
    /\ InitOthersOfTree

\* the next statement of the client script
ClientStep ==
    /\ size = ClientSizes
    /\ pc \in 1..Len(ClientCode)
    /\ Do(ClientCode[pc])
    /\ pc' = pc + 1
    /\ UNCHANGED <<size, called, visitorVars, cmdVars, laterVars>>

\* the next statement of the interleaved script
InterleavedStep ==
    /\ size = OtherSizes
    /\ pc \in 1..Len(InterleavedCode)
    /\ Do(InterleavedCode[pc])
    /\ pc' = pc + 1
    /\ UNCHANGED <<size, called, visitorVars, cmdVars, laterVars>>

\* calls a host program may make on the same objects, in any order
AddItem ==
    /\ TotalChildren < MaxAdds
    /\ \E folder \in FolderObjs, it \in Items : DoAddItem(folder, it)
    /\ pc' = 0
    /\ UNCHANGED <<size, called, visitorVars, cmdVars, laterVars>>

GetSize ==
    /\ \E o \in Items : DoGetSize(o)
    /\ pc' = 0
    /\ UNCHANGED <<size, called, visitorVars, cmdVars, laterVars>>

PrintStructure ==
    /\ \E o \in Items : DoPrintStructure(o)
    /\ pc' = 0
    /\ UNCHANGED <<size, called, visitorVars, cmdVars, laterVars>>

Delete ==
    /\ \E o \in Items : DoDelete(o)
    /\ pc' = 0
    /\ UNCHANGED <<size, called, visitorVars, cmdVars, laterVars>>

NextTree ==
    ClientStep \/ InterleavedStep \/ AddItem \/ GetSize \/ PrintStructure \/ Delete

SpecTree == InitTree /\ [][NextTree]_vars

(***************************************************************************)
(* Composite: vocabulary of the properties.                                *)
(***************************************************************************)
ChildSet(o) == IF o \in FolderObjs THEN {childs[o][i] : i \in DOMAIN childs[o]} ELSE {}

RECURSIVE Reach(_, _)
Reach(S, n) ==
    IF n = 0 THEN S
    ELSE Reach(S \cup UNION {ChildSet(x) : x \in S}, n - 1)

\* o and everything below it
Subtree(o) == Reach({o}, Cardinality(Items))

\* how many child slots of the folders in S hold x
Slots(x, S) ==
    Cardinality({p \in (S \cap FolderObjs) \X (1..Cardinality(Items) * MaxAdds + 8) :
                   p[2] \in DOMAIN childs[p[1]] /\ childs[p[1]][p[2]] = x})

\* the structure below o is a tree: o is nobody's child and every other node
\* is held by exactly one slot
IsTree(o) ==
    /\ Slots(o, Subtree(o)) = 0
    /\ \A x \in Subtree(o) \ {o} : Slots(x, Subtree(o)) = 1

RECURSIVE SumSizes(_)
SumSizes(S) ==
    IF S = {} THEN 0
    ELSE LET x == CHOOSE y \in S : TRUE IN size[x] + SumSizes(S \ {x})

\* sum of the sizes of the leaf Files below (or at) o
LeafSum(o) == SumSizes(Subtree(o) \cap FilesObjs)

\* positions of the lines of `out` that carry the name of x
PosSet(x) == {i \in DOMAIN out : out[i].name = name[x]}
Pos(x) == CHOOSE i \in PosSet(x) : TRUE

\* every node of the subtree has exactly one line and there is no other line
OneLineEach(o) ==
    /\ Len(out) = Cardinality(Subtree(o))
    /\ \A x \in Subtree(o) : Cardinality(PosSet(x)) = 1

\* the lines of the subtree of c are consecutive
Consecutive(c) ==
    \E lo \in DOMAIN out :
        {Pos(x) : x \in Subtree(c)} = lo..(lo + Cardinality(Subtree(c)) - 1)

\* for every folder below o, the children's outputs follow insertion order and
\* each child's output is complete before the next child's starts
ChildrenInOrder(o) ==
    \A g \in Subtree(o) \cap FolderObjs :
        /\ \A c \in ChildSet(g) : Consecutive(c)
        /\ \A i, j \in DOMAIN childs[g] :
              i < j => \A a \in Subtree(childs[g][i]), b \in Subtree(childs[g][j]) :
                          Pos(a) < Pos(b)

\* C1: on a tree, getSize returns the sum of the sizes of the leaf Files below
\* the node (for a Files object: the size given to its constructor).
C1_SizeIsLeafSum ==
    (lastCall.op = "getSize" /\ IsTree(lastCall.target)) =>
        /\ err = "none"
        /\ ret = Returned(LeafSum(lastCall.target))
        /\ (lastCall.target \in FilesObjs => ret.val = size[lastCall.target])

C1_Witness ==
    /\ lastCall.op = "getSize"
    /\ lastCall.target \in FolderObjs
    /\ IsTree(lastCall.target)
    /\ \E g \in ChildSet(lastCall.target) \cap FolderObjs :
          \E f \in ChildSet(g) \cap FilesObjs : size[f] > 0
    /\ Cardinality(Subtree(lastCall.target) \cap FilesObjs) >= 2
    /\ ret.has /\ ret.val > 0

\* C2: on a tree, printStructure writes one line per node of the subtree, the
\* folder's own line before the lines of everything below it, and the
\* children's outputs one after the other in insertion order.
C2_PrintIsPreOrder ==
    (lastCall.op = "printStructure" /\ IsTree(lastCall.target)) =>
        /\ err = "none"
        /\ OneLineEach(lastCall.target)
        /\ Pos(lastCall.target) = 1
        /\ \A g \in Subtree(lastCall.target) \cap FolderObjs :
              \A d \in Subtree(g) \ {g} : Pos(g) < Pos(d)
        /\ ChildrenInOrder(lastCall.target)
        /\ \A x \in Subtree(lastCall.target) :
              out[Pos(x)].kind = IF x \in FilesObjs THEN "file" ELSE "folder"

C2_Witness ==
    /\ lastCall.op = "printStructure"
    /\ lastCall.target \in FolderObjs
    /\ IsTree(lastCall.target)
    /\ Len(childs[lastCall.target]) >= 2
    /\ childs[lastCall.target][1] \in FolderObjs
    /\ Len(childs[childs[lastCall.target][1]]) >= 2
    /\ Len(out) >= 5

\* C3: on a tree, delete reports every node of the subtree once, every folder
\* after everything below it, the children one after the other in insertion
\* order; delete on a Files object reports that file alone.
C3_DeleteIsPostOrder ==
    (lastCall.op = "delete" /\ IsTree(lastCall.target)) =>
        /\ err = "none"
        /\ OneLineEach(lastCall.target)
        /\ Pos(lastCall.target) = Len(out)
        /\ \A g \in Subtree(lastCall.target) \cap FolderObjs :
              \A d \in Subtree(g) \ {g} : Pos(d) < Pos(g)
        /\ ChildrenInOrder(lastCall.target)
        /\ \A x \in Subtree(lastCall.target) :
              out[Pos(x)].kind =
                  IF x \in FilesObjs THEN "Deleting File: " ELSE "Deleting folder: "
        /\ (lastCall.target \in FilesObjs =>
               out = <<Line("Deleting File: ", 0, name[lastCall.target])>>)

C3_Witness ==
    /\ lastCall.op = "delete"
    /\ lastCall.target \in FolderObjs
    /\ IsTree(lastCall.target)
    /\ Len(childs[lastCall.target]) >= 2
    /\ childs[lastCall.target][1] \in FolderObjs
    /\ Len(childs[childs[lastCall.target][1]]) >= 2
    /\ Len(out) >= 5

\* C4 (as claimed): after delete() returned on a folder, the folder holds no
\* child any more.
C4_DeletedFolderHoldsNoChild ==
    (lastCall.op = "delete" /\ lastCall.target \in FolderObjs /\ err = "none") =>
        childs[lastCall.target] = <<>>

NamesOf(lines) == [i \in DOMAIN lines |-> lines[i].name]

\* C5 (as claimed): in the client script home.printStructure visits Home,
\* Documents, readme.txt, data.csv, Pictures, photo.jpg in that order and
\* home.getSize() is 1805.
C5_ClientScenario ==
    /\ (pc = 7 =>
          NamesOf(out) = <<"Home", "Documents", "readme.txt", "data.csv",
                           "Pictures", "photo.jpg">>)
    /\ (pc = 8 => ret = Returned(1805))

(***************************************************************************)
(* Visitor: Item variants and the three ApplyCalculation visitors.         *)
(* Amounts are whole rupees: prices are drawn from multiples of 100 and a  *)
(* rate of r% of price p is p * r \div 100.                                *)
(***************************************************************************)
ItemObjs == {"book1", "clothes1", "electronics1", "stationary1"}
Visitors == {"CalculatePrice", "ApplyDiscount", "ApplyGst"}
Prices == {0, 100, 200}

\* the class each object was constructed from
Class == [o \in ItemObjs |->
            CASE o = "book1" -> "Book"
              [] o = "clothes1" -> "Clothes"
              [] o = "electronics1" -> "Electronics"
              [] o = "stationary1" -> "Stationary"]

ItemName == [o \in ItemObjs |->
               CASE o = "book1" -> "Science"
                 [] o = "clothes1" -> "Shirt"
                 [] o = "electronics1" -> "Phone"
                 [] o = "stationary1" -> "Pen"]

\* the constructors: this.name = name; this.price = price
NewItem(o, price) == [variant |-> Class[o], name |-> ItemName[o], price |-> price]

\* accept(visitor) of each class: the visitor method it calls
BookAccept == "applyForBook"
ClothesAccept == "applyForCloth"
ElectronicsAccept == "applyForElectnics"
StationaryAccept == "applyForElectnics"

AcceptMethod(class) ==
    CASE class = "Book" -> BookAccept
      [] class = "Clothes" -> ClothesAccept
      [] class = "Electronics" -> ElectronicsAccept
      [] class = "Stationary" -> StationaryAccept

\* what a visitor method leaves behind: the item after the call and the line
\* it logged
Visited(it, text, amount) == [item |-> it, line |-> [text |-> text, amount |-> amount]]

\* CalculatePrice.applyFor*: console.log("Item price Rs. ", item.price)
CalculatePriceApply(method, it) == Visited(it, "Item price Rs. ", it.price)

\* ApplyDiscount.applyFor*: item.price * 0.02 / 0.08 / 0.12 / 0.11
DiscountPct(method) ==
    CASE method = "applyForBook" -> 2
      [] method = "applyForCloth" -> 8
      [] method = "applyForElectnics" -> 12
      [] method = "applyForStationary" -> 11

\* mutant of ApplyDiscountApply: the discount is taken off the item's price
ApplyDiscountApplyInPlace(method, it) ==
    Visited([it EXCEPT !.price = @ - (@ * DiscountPct(method)) \div 100],
            "Item Discount Rs. ", (it.price * DiscountPct(method)) \div 100)

ApplyDiscountApply(method, it) ==
    Visited(it, "Item Discount Rs. ", (it.price * DiscountPct(method)) \div 100)

\* ApplyGst.applyFor*: item.price * 0.05 / 0.12 / 0.18 / 0.09
GstPct(method) ==
    CASE method = "applyForBook" -> 5
      [] method = "applyForCloth" -> 12
      [] method = "applyForElectnics" -> 18
      [] method = "applyForStationary" -> 9

ApplyGstApply(method, it) ==
    Visited(it, "Item GST Rs. ", (it.price * GstPct(method)) \div 100)

VisitorApply(visitor, method, it) ==
    CASE visitor = "CalculatePrice" -> CalculatePriceApply(method, it)
      [] visitor = "ApplyDiscount" -> ApplyDiscountApply(method, it)
      [] visitor = "ApplyGst" -> ApplyGstApply(method, it)

InitVisitor ==
    /\ item \in {[o \in ItemObjs |-> NewItem(o, p[o])] : p \in [ItemObjs -> Prices]}
    /\ lastCall = NoCall
    /\ ret = NoRet
    /\ out = <<>>
    /\ err = "none"
    /\ called = <<>>
    /\ childs = <<>>
    /\ size = <<>>
    /\ pc = 0
    /\ currentStock = <<>>
    /\ action = <<>>
    /\ operations = <<>>
    /\ stockBefore = <<>>
    /\ prevCall = NoCall
    /\ ncalls = 0
    /\ IdleLater

\* o.accept(visitor)
Accept ==
    \E o \in ItemObjs, visitor \in Visitors :
        LET method == AcceptMethod(Class[o])
            r == VisitorApply(visitor, method, item[o])
        IN /\ item' = [item EXCEPT ![o] = r.item]
           /\ called' = <<[object |-> visitor, method |-> method]>>
           /\ out' = <<r.line>>
           /\ lastCall' = CallOf("accept", o, visitor)
           /\ ret' = NoRet
           /\ err' = "none"
           /\ UNCHANGED <<treeVars, cmdVars, laterVars>>

NextVisitor == Accept

SpecVisitor == InitVisitor /\ [][NextVisitor]_vars

(***************************************************************************)
(* Visitor: properties.                                                    *)
(***************************************************************************)
Classes == {"Book", "Clothes", "Electronics", "Stationary"}

\* the method of ApplyCalculation declared for each class
ReservedMethod(class) ==
    CASE class = "Book" -> "applyForBook"
      [] class = "Clothes" -> "applyForCloth"
      [] class = "Electronics" -> "applyForElectnics"
      [] class = "Stationary" -> "applyForStationary"

\* the rate table of the specification, in percent
DiscountRate(class) ==
    CASE class = "Book" -> 2
      [] class = "Clothes" -> 8
      [] class = "Electronics" -> 12
      [] class = "Stationary" -> 11

TaxRate(class) ==
    CASE class = "Book" -> 5
      [] class = "Clothes" -> 12
      [] class = "Electronics" -> 18
      [] class = "Stationary" -> 9

\* C6 (as claimed): accept calls exactly one visitor method, the one declared
\* for the item's own class and for no other class (so no two classes call
\* the same method).
C6_AcceptOneToOne ==
    lastCall.op = "accept" =>
        /\ called = <<[object |-> lastCall.arg,
                       method |-> ReservedMethod(Class[lastCall.target])]>>
        /\ \A c \in Classes \ {Class[lastCall.target]} :
              ReservedMethod(c) # called[1].method

\* C7 (as claimed): the discount visitor reports price times the discount rate
\* of the item's class and the tax visitor price times its tax rate.
C7_RatesPerVariant ==
    /\ (lastCall.op = "accept" /\ lastCall.arg = "ApplyDiscount") =>
          out[1].amount * 100 =
              item[lastCall.target].price * DiscountRate(Class[lastCall.target])
    /\ (lastCall.op = "accept" /\ lastCall.arg = "ApplyGst") =>
          out[1].amount * 100 =
              item[lastCall.target].price * TaxRate(Class[lastCall.target])

\* C8: accept(visitor) changes no item (price and name stay as they were), and
\* visiting the same item with the same visitor again reports the same line.
C8_VisitDoesNotMutate ==
    [][lastCall'.op = "accept" =>
          /\ item' = item
          /\ (lastCall = lastCall' => out' = out)]_vars

C8_Witness ==
    /\ lastCall.op = "accept"
    /\ lastCall.arg = "ApplyDiscount"
    /\ item[lastCall.target].price > 0
    /\ out[1].amount > 0

(***************************************************************************)
(* Command: Inventory, AddInventory / RemoveInventory, Logging.            *)
(* Quantities are integers.                                                *)
(***************************************************************************)
InventoryObjs == {"product1", "product2"}
ActionObjs == {"operation1", "operation2", "operation3"}
Quantities == {20, 100}

productName == [i \in InventoryObjs |-> IF i = "product1" THEN "ABC" ELSE "XYZ"]

\* mutant of NewInventory: the second constructor argument becomes the stock
NewInventoryFromPrice(nm, price) == price

\* Inventory.constructor(productName, price): this.currentStock = 0
NewInventory(nm, price) == 0

\* the action objects: new AddInventory(product1, 100),
\* new RemoveInventory(product1, 20), and an action on a second product
NewAction(type, inventory, quantity) ==
    [type |-> type, inventory |-> inventory, quantity |-> quantity]

ConstructedActions == [a \in ActionObjs |->
    CASE a = "operation1" -> NewAction("AddInventory", "product1", 100)
      [] a = "operation2" -> NewAction("RemoveInventory", "product1", 20)
      [] a = "operation3" -> NewAction("AddInventory", "product2", 20)]

\* mutant of InventoryAddInventory: `=` instead of `+`, the stock is set to
\* the quantity
InventoryAddInventorySet(stock, inv, quantity) ==
    [stock EXCEPT ![inv] = quantity]

\* Inventory.addInventory(quantity)
InventoryAddInventory(stock, inv, quantity) ==
    [stock EXCEPT ![inv] = @ + quantity]

\* mutant of InventoryRemoveInventory: the stock is not let below zero
InventoryRemoveInventoryClamped(stock, inv, quantity) ==
    [stock EXCEPT ![inv] = IF @ - quantity < 0 THEN 0 ELSE @ - quantity]

\* mutant of InventoryRemoveInventory: a removal larger than the stock is
\* refused
InventoryRemoveInventoryGuarded(stock, inv, quantity) ==
    [stock EXCEPT ![inv] = IF @ < quantity THEN @ ELSE @ - quantity]

\* Inventory.removeInventory(quantity)
InventoryRemoveInventory(stock, inv, quantity) ==
    [stock EXCEPT ![inv] = @ - quantity]

\* mutant of AddInventoryExecute: the action adds to the stock its inventory
\* had when the action was constructed, not to the current one
AddInventoryExecuteSnapshot(stock, a) ==
    [stock EXCEPT ![action[a].inventory] =
         NewInventory(productName[action[a].inventory], 12) + action[a].quantity]

\* AddInventory.execute / undo
AddInventoryExecute(stock, a) ==
    InventoryAddInventory(stock, action[a].inventory, action[a].quantity)
AddInventoryUndo(stock, a) ==
    InventoryRemoveInventory(stock, action[a].inventory, action[a].quantity)

\* mutant of RemoveInventoryUndo: undoing a removal removes once more
RemoveInventoryUndoRepeats(stock, a) ==
    InventoryRemoveInventory(stock, action[a].inventory, action[a].quantity)

\* RemoveInventory.execute / undo
RemoveInventoryExecute(stock, a) ==
    InventoryRemoveInventory(stock, action[a].inventory, action[a].quantity)
RemoveInventoryUndo(stock, a) ==
    InventoryAddInventory(stock, action[a].inventory, action[a].quantity)

\* action.execute() / action.undo(), dispatched on the action's class
ActionExecute(stock, a) ==
    IF action[a].type = "AddInventory" THEN AddInventoryExecute(stock, a)
    ELSE RemoveInventoryExecute(stock, a)
ActionUndo(stock, a) ==
    IF action[a].type = "AddInventory" THEN AddInventoryUndo(stock, a)
    ELSE RemoveInventoryUndo(stock, a)

\* mutant of LoggingPush: the action is put at the front of the log
LoggingUnshift(ops, a) == <<a>> \o ops

\* this.operations.push(action)
LoggingPush(ops, a) == Append(ops, a)

\* mutant of LoggingPopRest: the last element is read but not removed
LoggingPopRestPeek(ops) == ops

\* this.operations.pop(): the array without its last element
LoggingPopRest(ops) == SubSeq(ops, 1, Len(ops) - 1)

\* mutant of LoggingPopped: shift() instead of pop(), the first element
LoggingShifted(ops) == ops[1]

\* this.operations.pop(): the element removed
LoggingPopped(ops) == ops[Len(ops)]

\* a method invoked on another object
Invoked(object, method) == [object |-> object, method |-> method]

\* what a Logging method leaves behind
Logged(ops, stock, e, calls) ==
    [operations |-> ops, currentStock |-> stock, err |-> e, called |-> calls]

\* mutant of LoggingUndoWithLogging: no `if (action)`, undo() is called on
\* whatever pop() returned
LoggingUndoWithLoggingUnguarded(ops, stock) ==
    IF ops # <<>>
    THEN Logged(LoggingPopRest(ops), ActionUndo(stock, LoggingPopped(ops)), "none",
                <<Invoked(LoggingPopped(ops), "undo")>>)
    ELSE Logged(ops, stock, "TypeError", <<>>)

\* Logging.undoWithLogging: pop(), then undo() if an action was popped
LoggingUndoWithLogging(ops, stock) ==
    IF ops # <<>>
    THEN Logged(LoggingPopRest(ops), ActionUndo(stock, LoggingPopped(ops)), "none",
                <<Invoked(LoggingPopped(ops), "undo")>>)
    ELSE Logged(ops, stock, "none", <<>>)

\* a console line of getLogs
LogLine(a) == [text |-> "transaction = ", object |-> a, fields |-> action[a]]

\* mutant of LoggingGetLogs: the log is walked from its last entry to its first
LoggingGetLogsReversed(ops) ==
    [i \in DOMAIN ops |-> LogLine(ops[Len(ops) + 1 - i])]

\* Logging.getLogs: for (const transaction of this.operations) console.log(..)
LoggingGetLogs(ops) == [i \in DOMAIN ops |-> LogLine(ops[i])]

InitCmd ==
    /\ currentStock = [i \in InventoryObjs |-> NewInventory(productName[i], 12)]
    /\ action = ConstructedActions
    /\ operations = <<>>
    /\ stockBefore = [i \in InventoryObjs |-> NewInventory(productName[i], 12)]
    /\ prevCall = NoCall
    /\ ncalls = 0
    /\ lastCall = NoCall
    /\ ret = NoRet
    /\ out = <<>>
    /\ err = "none"
    /\ called = <<>>
    /\ childs = <<>>
    /\ size = <<>>
    /\ pc = 1
    /\ item = <<>>
    /\ IdleLater

\* what every call on the Command objects does to the bookkeeping
Calling(c) ==
    /\ ncalls' = ncalls + 1
    /\ prevCall' = lastCall
    /\ lastCall' = c
    /\ stockBefore' = currentStock
    /\ ret' = NoRet
    /\ UNCHANGED <<action, childs, size, visitorVars>>
    /\ UNCHANGED <<stateVars, mementoVars, iterVars, proxyVars>>

\* inventory.addInventory(q), called directly
DoAddInventory(inv, q) ==
    /\ Calling(CallOf("addInventory", inv, q))
    /\ currentStock' = InventoryAddInventory(currentStock, inv, q)
    /\ out' = <<>>
    /\ err' = "none"
    /\ called' = <<>>
    /\ UNCHANGED operations

\* inventory.removeInventory(q), called directly
DoRemoveInventory(inv, q) ==
    /\ Calling(CallOf("removeInventory", inv, q))
    /\ currentStock' = InventoryRemoveInventory(currentStock, inv, q)
    /\ out' = <<>>
    /\ err' = "none"
    /\ called' = <<>>
    /\ UNCHANGED operations

\* inventory.getCurrentStock()
DoGetCurrentStock(inv) ==
    /\ Calling(CallOf("getCurrentStock", inv, "none"))
    /\ out' = <<[product |-> productName[inv], stock |-> currentStock[inv]]>>
    /\ err' = "none"
    /\ called' = <<>>
    /\ UNCHANGED <<currentStock, operations>>

\* the Inventory method an action's execute() / undo() calls
ExecuteCalls(a) ==
    IF action[a].type = "AddInventory" THEN "addInventory" ELSE "removeInventory"
UndoCalls(a) ==
    IF action[a].type = "AddInventory" THEN "removeInventory" ELSE "addInventory"

\* action.execute(), called directly
DoExecute(a) ==
    /\ Calling(CallOf("execute", a, "none"))
    /\ currentStock' = ActionExecute(currentStock, a)
    /\ out' = <<>>
    /\ err' = "none"
    /\ called' = <<Invoked(action[a].inventory, ExecuteCalls(a))>>
    /\ UNCHANGED operations

\* action.undo(), called directly
DoUndo(a) ==
    /\ Calling(CallOf("undo", a, "none"))
    /\ currentStock' = ActionUndo(currentStock, a)
    /\ out' = <<>>
    /\ err' = "none"
    /\ called' = <<Invoked(action[a].inventory, UndoCalls(a))>>
    /\ UNCHANGED operations

\* logger.executeWithLogging(action)
DoExecuteWithLogging(a) ==
    /\ Calling(CallOf("executeWithLogging", a, "none"))
    /\ currentStock' = ActionExecute(currentStock, a)
    /\ operations' = LoggingPush(operations, a)
    /\ out' = <<>>
    /\ err' = "none"
    /\ called' = <<Invoked(a, "execute")>>

\* logger.undoWithLogging()
DoUndoWithLogging ==
    LET r == LoggingUndoWithLogging(operations, currentStock) IN
    /\ Calling(CallOf("undoWithLogging", "logger", "none"))
    /\ out' = <<>>
    /\ operations' = r.operations
    /\ currentStock' = r.currentStock
    /\ err' = r.err
    /\ called' = r.called

\* logger.getLogs()
DoGetLogs ==
    /\ Calling(CallOf("getLogs", "logger", "none"))
    /\ out' = LoggingGetLogs(operations)
    /\ err' = "none"
    /\ called' = <<>>
    /\ UNCHANGED <<currentStock, operations>>

\* The client code after the constructors (logger.executeWithLogging(operation1)
\* .. logger.getLogs()), continued with the two further logger.undoWithLogging()
\* calls of the LIFO scenario.
LifoScenario == <<
    CallOf("executeWithLogging", "operation1", "none"),
    CallOf("executeWithLogging", "operation2", "none"),
    CallOf("undoWithLogging", "logger", "none"),
    CallOf("getCurrentStock", "product1", "none"),
    CallOf("getLogs", "logger", "none"),
    CallOf("undoWithLogging", "logger", "none"),
    CallOf("undoWithLogging", "logger", "none") >>

DoCmd(c) ==
    CASE c.op = "executeWithLogging" -> DoExecuteWithLogging(c.target)
      [] c.op = "undoWithLogging" -> DoUndoWithLogging
      [] c.op = "getCurrentStock" -> DoGetCurrentStock(c.target)
      [] c.op = "getLogs" -> DoGetLogs

\* the next statement of the scenario
ScenarioStep ==
    /\ pc \in 1..Len(LifoScenario)
    /\ DoCmd(LifoScenario[pc])
    /\ pc' = pc + 1
    /\ UNCHANGED logsVars

\* a call a host program makes on the same objects, in any order
FreeCall ==
    /\ ncalls < MaxCalls
    /\ pc' = 0
    /\ UNCHANGED logsVars

AddInventoryCall ==
    \E inv \in InventoryObjs, q \in Quantities : FreeCall /\ DoAddInventory(inv, q)

RemoveInventoryCall ==
    \E inv \in InventoryObjs, q \in Quantities : FreeCall /\ DoRemoveInventory(inv, q)

GetCurrentStock ==
    \E inv \in InventoryObjs : FreeCall /\ DoGetCurrentStock(inv)

Execute ==
    \E a \in ActionObjs : FreeCall /\ DoExecute(a)

Undo ==
    \E a \in ActionObjs : FreeCall /\ DoUndo(a)

ExecuteWithLogging ==
    \E a \in ActionObjs : FreeCall /\ DoExecuteWithLogging(a)

UndoWithLogging == FreeCall /\ DoUndoWithLogging

GetLogs == FreeCall /\ DoGetLogs

NextCmd ==
    \/ ScenarioStep
    \/ AddInventoryCall
    \/ RemoveInventoryCall
    \/ GetCurrentStock
    \/ Execute
    \/ Undo
    \/ ExecuteWithLogging
    \/ UndoWithLogging
    \/ GetLogs

SpecCmd == InitCmd /\ [][NextCmd]_vars

(***************************************************************************)
(* Command: properties.                                                    *)
(***************************************************************************)
\* the signed quantity of an action: +q for AddInventory, -q for RemoveInventory
Signed(a) ==
    IF action[a].type = "AddInventory" THEN action[a].quantity
    ELSE 0 - action[a].quantity

\* C9: for integer quantities, a.undo() called right after a.execute() leaves
\* currentStock (of every inventory) as it was before the execute.
C9_ExecuteThenUndoRestores ==
    [][(lastCall.op = "execute" /\ lastCall'.op = "undo"
            /\ lastCall'.target = lastCall.target) =>
          currentStock' = stockBefore]_vars

\* an action was executed from a stock below its quantity and then undone
C9_Witness ==
    /\ prevCall.op = "execute"
    /\ lastCall.op = "undo"
    /\ lastCall.target = prevCall.target
    /\ action[lastCall.target].type = "RemoveInventory"
    /\ stockBefore[action[lastCall.target].inventory] < 0
    /\ currentStock[action[lastCall.target].inventory] >= 0
    /\ currentStock[action[lastCall.target].inventory] < action[lastCall.target].quantity

\* C10: executeWithLogging(a) changes the stock of a's inventory by a's signed
\* quantity (and no other stock) and appends a to the log, leaving the earlier
\* entries as they were.
C10_ExecuteWithLoggingAppends ==
    [][lastCall'.op = "executeWithLogging" =>
          /\ currentStock' =
               [currentStock EXCEPT ![action[lastCall'.target].inventory] =
                    @ + Signed(lastCall'.target)]
          /\ Len(operations') = Len(operations) + 1
          /\ operations'[Len(operations')] = lastCall'.target
          /\ \A i \in DOMAIN operations : operations'[i] = operations[i]]_vars

C10_Witness ==
    /\ lastCall.op = "executeWithLogging"
    /\ Len(operations) >= 2
    /\ operations[1] # operations[2]
    /\ currentStock # stockBefore

\* C11: on a non-empty log, undoWithLogging removes exactly the last entry,
\* keeps the other entries in their order, calls undo() on the removed action
\* and on nothing else, and so takes that action's signed quantity back from
\* its inventory (successive undos therefore go through the log backwards).
C11_UndoIsLifo ==
    [][(lastCall'.op = "undoWithLogging" /\ operations # <<>>) =>
          /\ Len(operations') = Len(operations) - 1
          /\ \A i \in DOMAIN operations' : operations'[i] = operations[i]
          /\ called' = <<Invoked(operations[Len(operations)], "undo")>>
          /\ currentStock' =
               [currentStock EXCEPT
                    ![action[operations[Len(operations)]].inventory] =
                        @ - Signed(operations[Len(operations)])]
          /\ err' = "none"]_vars

\* two undos in a row emptied a log of two entries, the second undo taking
\* back the entry recorded first
C11_Witness ==
    /\ prevCall.op = "undoWithLogging"
    /\ lastCall.op = "undoWithLogging"
    /\ ncalls = 4
    /\ operations = <<>>
    /\ called = <<Invoked("operation1", "undo")>>
    /\ stockBefore["product2"] = 0
    /\ stockBefore["product1"] = 100
    /\ currentStock["product1"] = 0

\* C12: undoWithLogging on an empty log raises nothing, leaves the log empty,
\* calls no undo() and changes no inventory's stock.
C12_UndoOnEmptyLogIsNoOp ==
    [][(lastCall'.op = "undoWithLogging" /\ operations = <<>>) =>
          /\ err' = "none"
          /\ operations' = <<>>
          /\ called' = <<>>
          /\ currentStock' = currentStock]_vars

\* undoWithLogging ran on an empty log while a stock was not at its initial value
C12_Witness ==
    /\ lastCall.op = "undoWithLogging"
    /\ operations = <<>>
    /\ called = <<>>
    /\ currentStock = stockBefore
    /\ currentStock["product1"] # 0

\* stock of product1 when the scenario is at position p (after p - 1 statements)
ScenarioStock(p, s) == pc = p => currentStock["product1"] = s

\* C13 (as claimed): the stock of new Inventory("ABC", 12) starts at 12, is 112
\* and 92 after recording AddInventory(100) and RemoveInventory(20), 112 after
\* the first undoWithLogging, 12 after the second and 12 after the third.
C13_LifoScenarioFrom12 ==
    /\ ScenarioStock(1, 12)
    /\ ScenarioStock(2, 112)
    /\ ScenarioStock(3, 92)
    /\ ScenarioStock(4, 112)
    /\ ScenarioStock(7, 12)
    /\ ScenarioStock(8, 12)

\* C13 (amended): the stock starts at 0 (12 is the price), is 100 and 80 after
\* the two recordings, 100 after the first undoWithLogging (and after the reads
\* that follow it), 0 after the second, and 0 with an empty log after the third.
C13_LifoScenarioFrom0 ==
    /\ ScenarioStock(1, 0)
    /\ ScenarioStock(2, 100)
    /\ ScenarioStock(3, 80)
    /\ ScenarioStock(4, 100)
    /\ ScenarioStock(5, 100)
    /\ ScenarioStock(6, 100)
    /\ ScenarioStock(7, 0)
    /\ ScenarioStock(8, 0)
    /\ (pc = 7 => operations = <<>>)
    /\ (pc = 8 => operations = <<>> /\ err = "none")

C13_Witness ==
    /\ pc = 8
    /\ ncalls = 7
    /\ lastCall.op = "undoWithLogging"
    /\ called = <<>>

\* C14: getLogs writes one line per recorded action, in recording order, and
\* changes neither the log nor any stock nor any action object.
C14_GetLogsIsReadOnly ==
    [][lastCall'.op = "getLogs" =>
          /\ operations' = operations
          /\ currentStock' = currentStock
          /\ action' = action
          /\ called' = <<>>
          /\ Len(out') = Len(operations)
          /\ \A i \in DOMAIN operations : out'[i].object = operations[i]]_vars

C14_Witness ==
    /\ lastCall.op = "getLogs"
    /\ Len(operations) >= 2
    /\ operations[1] # operations[2]
    /\ Len(out) = Len(operations)

\* ops1 is an initial part of ops2
IsPrefix(ops1, ops2) ==
    /\ Len(ops1) <= Len(ops2)
    /\ \A i \in DOMAIN ops1 : ops1[i] = ops2[i]

\* C15: a successful undoWithLogging shortens the log by exactly one entry,
\* the one it undid; undoWithLogging and getLogs never add an entry and never
\* call execute(); the only Logging call that executes an action is
\* executeWithLogging, and it executes the action its caller passes.
C15_NoRedo ==
    [][/\ (lastCall'.op = "undoWithLogging" /\ operations # <<>>) =>
              Len(operations') = Len(operations) - 1
       /\ lastCall'.op \in {"undoWithLogging", "getLogs"} =>
              /\ IsPrefix(operations', operations)
              /\ \A i \in DOMAIN called' : called'[i].method # "execute"
       /\ lastCall'.op = "executeWithLogging" =>
              called' = <<Invoked(lastCall'.target, "execute")>>]_vars

\* an action was recorded, undone, and a further Logging call followed
C15_Witness ==
    /\ prevCall.op = "undoWithLogging"
    /\ lastCall.op \in {"undoWithLogging", "getLogs"}
    /\ ncalls >= 3
    /\ operations = <<>>
    /\ called = <<>>
    /\ currentStock = stockBefore

\* C16: every execute() changes the stock of the action's inventory by the
\* action's signed quantity, so two execute() calls in a row on the same action
\* change it by twice that quantity.
C16_ExecuteAccumulates ==
    [][lastCall'.op = "execute" =>
          /\ currentStock' =
               [currentStock EXCEPT ![action[lastCall'.target].inventory] =
                    @ + Signed(lastCall'.target)]
          /\ (lastCall.op = "execute" /\ lastCall.target = lastCall'.target) =>
                currentStock' =
                    [stockBefore EXCEPT ![action[lastCall'.target].inventory] =
                         @ + 2 * Signed(lastCall'.target)]]_vars

\* the same AddInventory was executed three times in a row
C16_Witness ==
    /\ ncalls = 3
    /\ prevCall.op = "execute"
    /\ lastCall.op = "execute"
    /\ prevCall.target = lastCall.target
    /\ action[lastCall.target].type = "AddInventory"
    /\ currentStock[action[lastCall.target].inventory] =
           3 * action[lastCall.target].quantity

\* a call that takes an action's quantity off the stock / puts it back
Takes(c) ==
    \/ c.op = "execute" /\ action[c.target].type = "RemoveInventory"
    \/ c.op = "undo" /\ action[c.target].type = "AddInventory"
Gives(c) ==
    \/ c.op = "undo" /\ action[c.target].type = "RemoveInventory"
    \/ c.op = "execute" /\ action[c.target].type = "AddInventory"

\* C17: RemoveInventory.execute() and AddInventory.undo() with a quantity above
\* the current stock return normally and leave the stock at the old value minus
\* the quantity, below zero; the matching inverse called next restores the old
\* value.
C17_NegativeStockNotGuarded ==
    [][/\ (Takes(lastCall') /\ action[lastCall'.target].quantity >
                 currentStock[action[lastCall'.target].inventory]) =>
              /\ err' = "none"
              /\ currentStock' =
                   [currentStock EXCEPT ![action[lastCall'.target].inventory] =
                        @ - action[lastCall'.target].quantity]
       /\ (lastCall.op \in {"execute", "undo"} /\ Takes(lastCall)
             /\ currentStock[action[lastCall.target].inventory] < 0
             /\ lastCall'.op \in {"execute", "undo"} /\ Gives(lastCall')
             /\ lastCall'.target = lastCall.target) =>
              currentStock' = stockBefore]_vars

\* AddInventory(100).undo() took the stock from 0 to -100 and execute() then
\* brought it back
C17_Witness ==
    /\ prevCall.op = "undo"
    /\ lastCall.op = "execute"
    /\ prevCall.target = lastCall.target
    /\ action[lastCall.target].type = "AddInventory"
    /\ stockBefore[action[lastCall.target].inventory] < 0
    /\ currentStock[action[lastCall.target].inventory] =
           stockBefore[action[lastCall.target].inventory]
               + action[lastCall.target].quantity

\* C18: execute() / undo() add or subtract the action's quantity to the stock
\* its inventory has when the call is made, whatever changed it before, and no
\* call changes an action's quantity or the inventory it is bound to.
C18_ActsOnCurrentStock ==
    [][/\ lastCall'.op = "execute" =>
              currentStock' =
                  [currentStock EXCEPT ![action[lastCall'.target].inventory] =
                       @ + Signed(lastCall'.target)]
       /\ lastCall'.op = "undo" =>
              currentStock' =
                  [currentStock EXCEPT ![action[lastCall'.target].inventory] =
                       @ - Signed(lastCall'.target)]
       /\ action' = action]_vars

\* an AddInventory was executed after a direct call and another action had
\* changed the stock of its inventory
C18_Witness ==
    /\ ncalls >= 3
    /\ prevCall.op = "removeInventory"
    /\ prevCall.target = "product1"
    /\ lastCall.op = "execute"
    /\ lastCall.target = "operation1"
    /\ stockBefore["product1"] \notin {0, 0 - prevCall.arg}
    /\ currentStock["product1"] = stockBefore["product1"] + 100
    /\ action = ConstructedActions

(***************************************************************************)
(* Composite: shape of the structure addItem builds.                       *)
(***************************************************************************)
\* everything strictly below o
Below(o) == Reach(ChildSet(o), Cardinality(Items))

\* C19 (as claimed): after any addItem calls every item sits in at most one
\* child slot of all folders taken together.
C19_AtMostOneParent ==
    \A x \in Items : Slots(x, FolderObjs) <= 1

\* C20 (as claimed): after any addItem calls no folder is its own child or its
\* own descendant.
C20_NoFolderBelowItself ==
    \A f \in FolderObjs : f \notin Below(f)

\* number of child links from o down to x (x in the tree below o)
RECURSIVE DepthFrom(_, _, _)
DepthFrom(S, x, n) ==
    IF x \in S \/ n > Cardinality(Items) THEN n
    ELSE DepthFrom(S \cup UNION {ChildSet(y) : y \in S}, x, n + 1)
Depth(o, x) == DepthFrom({o}, x, 0)

\* C21 (as claimed): on every structure addItem calls can build, getSize,
\* printStructure and delete called on a folder return.
C21_TreeOperationsReturn ==
    (lastCall.op \in {"getSize", "printStructure", "delete"}
        /\ lastCall.target \in FolderObjs) => err = "none"

\* C22: getSize is computed from the child lists as they are when it is called:
\* on a tree it returns the sum of the sizes of the leaves now below the node,
\* also when a nested folder was filled after it was attached, and it changes
\* no child list.  In the interleaved script home.getSize() is 5 after file1
\* went into the attached documents and 305 after file3 followed.
C22_GetSizeIsFresh ==
    [][lastCall'.op = "getSize" =>
          /\ childs' = childs
          /\ IsTree(lastCall'.target) =>
                (err' = "none" /\ ret' = Returned(LeafSum(lastCall'.target)))
          /\ (size = OtherSizes /\ pc' = 4) => ret' = Returned(5)
          /\ (size = OtherSizes /\ pc' = 6) => ret' = Returned(305)]_vars

\* the second home.getSize() of the interleaved script has returned
C22_Witness ==
    /\ size = OtherSizes
    /\ pc = 6
    /\ lastCall = CallOf("getSize", "home", "none")
    /\ childs["home"] = <<"documents">>
    /\ childs["documents"] = <<"file1", "file3">>
    /\ ret = Returned(305)

\* C23: on a folder without children getSize returns 0, printStructure writes
\* one line (the folder's name) and delete reports the folder alone; getSize of
\* a zero-size file returns 0, and on a tree a folder's size is the sum over
\* the leaves of non-zero size below it.
C23_EmptyFolderAndZeroLeaf ==
    /\ (lastCall.target \in FolderObjs /\ childs[lastCall.target] = <<>>) =>
          /\ err = "none"
          /\ lastCall.op = "getSize" => ret = Returned(0)
          /\ lastCall.op = "printStructure" =>
                (Len(out) = 1 /\ out[1].name = name[lastCall.target]
                    /\ out[1].kind = "folder")
          /\ lastCall.op = "delete" =>
                out = <<Line("Deleting folder: ", 0, name[lastCall.target])>>
    /\ (lastCall.op = "getSize" /\ lastCall.target \in FilesObjs
            /\ size[lastCall.target] = 0) =>
          (err = "none" /\ ret = Returned(0))
    /\ (lastCall.op = "getSize" /\ IsTree(lastCall.target)) =>
          ret = Returned(SumSizes({x \in Subtree(lastCall.target) \cap FilesObjs :
                                      size[x] # 0}))

\* getSize ran on a folder that holds an empty folder and a zero-size file
C23_Witness ==
    /\ lastCall.op = "getSize"
    /\ lastCall.target \in FolderObjs
    /\ IsTree(lastCall.target)
    /\ \E g \in ChildSet(lastCall.target) \cap FolderObjs : childs[g] = <<>>
    /\ \E f \in ChildSet(lastCall.target) \cap FilesObjs : size[f] = 0
    /\ ret = Returned(0)

\* C24 (as claimed): when a tree is printed from its root with indent "", the
\* line of every node, file or folder, starts with as many indent units as the
\* node is deep below the root.
C24_IndentByDepth ==
    (lastCall.op = "printStructure" /\ IsTree(lastCall.target) /\ err = "none") =>
        \A x \in Subtree(lastCall.target) :
            out[Pos(x)].indent = Depth(lastCall.target, x)

(***************************************************************************)
(* Command: two Logging objects over the same inventories and actions; the *)
(* inventories are changed through the Logging objects only.               *)
(***************************************************************************)
LoggingObjs == {"logger", "logger2"}

InitLogs ==
    /\ currentStock = [i \in InventoryObjs |-> NewInventory(productName[i], 12)]
    /\ action = ConstructedActions
    /\ logs = [l \in LoggingObjs |-> <<>>]
    /\ operations = <<>>
    /\ stockBefore = [i \in InventoryObjs |-> NewInventory(productName[i], 12)]
    /\ prevCall = NoCall
    /\ ncalls = 0
    /\ lastCall = NoCall
    /\ ret = NoRet
    /\ out = <<>>
    /\ err = "none"
    /\ called = <<>>
    /\ childs = <<>>
    /\ size = <<>>
    /\ pc = 0
    /\ item = <<>>
    /\ IdleState /\ IdleMemento /\ IdleIter /\ IdleProxy

\* l.executeWithLogging(a)
ExecuteWithLoggingOn ==
    \E l \in LoggingObjs, a \in ActionObjs :
        /\ ncalls < MaxCalls
        /\ Calling(CallOf("executeWithLogging", a, l))
        /\ currentStock' = ActionExecute(currentStock, a)
        /\ logs' = [logs EXCEPT ![l] = LoggingPush(@, a)]
        /\ out' = <<>>
        /\ err' = "none"
        /\ called' = <<Invoked(a, "execute")>>
        /\ UNCHANGED <<operations, pc>>

\* l.undoWithLogging()
UndoWithLoggingOn ==
    \E l \in LoggingObjs :
        LET r == LoggingUndoWithLogging(logs[l], currentStock) IN
        /\ ncalls < MaxCalls
        /\ Calling(CallOf("undoWithLogging", l, "none"))
        /\ logs' = [logs EXCEPT ![l] = r.operations]
        /\ currentStock' = r.currentStock
        /\ out' = <<>>
        /\ err' = r.err
        /\ called' = r.called
        /\ UNCHANGED <<operations, pc>>

\* l.getLogs()
GetLogsOn ==
    \E l \in LoggingObjs :
        /\ ncalls < MaxCalls
        /\ Calling(CallOf("getLogs", l, "none"))
        /\ out' = LoggingGetLogs(logs[l])
        /\ err' = "none"
        /\ called' = <<>>
        /\ UNCHANGED <<currentStock, logs, operations, pc>>

NextLogs == ExecuteWithLoggingOn \/ UndoWithLoggingOn \/ GetLogsOn

SpecLogs == InitLogs /\ [][NextLogs]_vars

\* sum of the signed quantities of the entries of ops that target inv
RECURSIVE SignedSum(_, _)
SignedSum(ops, inv) ==
    IF ops = <<>> THEN 0
    ELSE (IF action[Head(ops)].inventory = inv THEN Signed(Head(ops)) ELSE 0)
             + SignedSum(Tail(ops), inv)

\* C25: while the inventories are changed through executeWithLogging and
\* undoWithLogging only (two logs, any interleaving, an action possibly
\* recorded several times), the stock of every inventory is its initial stock
\* plus the signed quantities of the entries now in the logs that target it;
\* with both logs empty it is the initial stock.
C25_StockMatchesLogs ==
    \A inv \in InventoryObjs :
        /\ currentStock[inv] =
               NewInventory(productName[inv], 12)
                   + SignedSum(logs["logger"], inv) + SignedSum(logs["logger2"], inv)
        /\ (\A l \in LoggingObjs : logs[l] = <<>>) =>
               currentStock[inv] = NewInventory(productName[inv], 12)

\* the same action is in both logs, and an undo on one log has just taken
\* another entry back
C25_Witness ==
    /\ lastCall.op = "undoWithLogging"
    /\ called # <<>>
    /\ \E a \in ActionObjs :
          /\ \E i \in DOMAIN logs["logger"] : logs["logger"][i] = a
          /\ \E i \in DOMAIN logs["logger2"] : logs["logger2"][i] = a
          /\ called[1].object # a
    /\ currentStock # stockBefore
    /\ currentStock["product1"] # 0

(***************************************************************************)
(* State: Documents and its state classes Draft, Review, Publish.          *)
(***************************************************************************)
DocObjs == {"doc1", "doc2"}
DocOps == {"write", "read", "print"}

\* what a method of a state class leaves behind: the class of document.state
\* after it and the line it logged
Handled(st, line) == [state |-> st, line |-> line]

\* mutant of DraftRead: reading a draft publishes it
DraftReadPublishes(st) == Handled("Publish", "Review ======> Publish")

\* class Draft
DraftWrite(st) == Handled("Review", "Draft ======> Review")
DraftRead(st) == Handled(st, "You can't read without write")
DraftPrint(st) == Handled(st, "You can't print without review")

\* class Review
ReviewRead(st) == Handled("Publish", "Review ======> Publish")
ReviewWrite(st) == Handled(st, "You can't write while review")
ReviewPrint(st) == Handled(st, "You can't print without review")

\* class Publish
PublishPrint(st) == Handled(st, "You doc has published")
PublishRead(st) == Handled(st, "You can't read while print")
PublishWrite(st) == Handled(st, "You can't write while review")

\* this.state.write(this) / read(this) / print(this), dispatched on the class
\* of the state object
StateWrite(st) ==
    CASE st = "Draft" -> DraftWrite(st)
      [] st = "Review" -> ReviewWrite(st)
      [] st = "Publish" -> PublishWrite(st)
StateRead(st) ==
    CASE st = "Draft" -> DraftRead(st)
      [] st = "Review" -> ReviewRead(st)
      [] st = "Publish" -> PublishRead(st)
StatePrint(st) ==
    CASE st = "Draft" -> DraftPrint(st)
      [] st = "Review" -> ReviewPrint(st)
      [] st = "Publish" -> PublishPrint(st)

\* Documents.constructor: this.state = new Draft()
NewDocuments == "Draft"

InitState ==
    /\ state = [d \in DocObjs |-> NewDocuments]
    /\ trail = [d \in DocObjs |-> <<>>]
    /\ lastCall = NoCall
    /\ ret = NoRet
    /\ out = <<>>
    /\ err = "none"
    /\ called = <<>>
    /\ childs = <<>>
    /\ size = <<>>
    /\ pc = 0
    /\ item = <<>>
    /\ currentStock = <<>>
    /\ action = <<>>
    /\ operations = <<>>
    /\ stockBefore = <<>>
    /\ prevCall = NoCall
    /\ ncalls = 0
    /\ IdleLogs /\ IdleMemento /\ IdleIter /\ IdleProxy

\* number of calls made on the documents so far
OpsDone == Len(trail["doc1"]) + Len(trail["doc2"])

\* a call d.op() that ended with the state object's method result r
DocumentsCalled(d, op, r) ==
    /\ OpsDone < MaxOps
    /\ state' = [state EXCEPT ![d] = r.state]
    /\ trail' = [trail EXCEPT ![d] = Append(@, op)]
    /\ out' = <<r.line>>
    /\ lastCall' = CallOf(op, d, "none")
    /\ called' = <<Invoked(state[d], op)>>
    /\ ret' = NoRet
    /\ err' = "none"
    /\ UNCHANGED <<treeVars, visitorVars, cmdVars>>
    /\ UNCHANGED <<logsVars, mementoVars, iterVars, proxyVars>>

\* Documents.write / read / print
DocumentsWrite == \E d \in DocObjs : DocumentsCalled(d, "write", StateWrite(state[d]))
DocumentsRead == \E d \in DocObjs : DocumentsCalled(d, "read", StateRead(state[d]))
DocumentsPrint == \E d \in DocObjs : DocumentsCalled(d, "print", StatePrint(state[d]))

NextState == DocumentsWrite \/ DocumentsRead \/ DocumentsPrint

SpecState == InitState /\ [][NextState]_vars

\* the state the claim gives for a document in state st after operation op
ClaimedNext(st, op) ==
    IF st = "Draft" /\ op = "write" THEN "Review"
    ELSE IF st = "Review" /\ op = "read" THEN "Publish"
    ELSE st

\* a write() was called on d and a read() some time after it
WriteThenRead(d) ==
    \E i, j \in DOMAIN trail[d] :
        i < j /\ trail[d][i] = "write" /\ trail[d][j] = "read"

\* C26: a document starts in Draft; write() takes Draft to Review, read() takes
\* Review to Publish and every other call leaves the state as it is (so Publish
\* is never left); print() reports "published" exactly when the state is
\* Publish, and a document is in Publish only after a write() and a later
\* read().
C26_DocumentStateMachine ==
    /\ [](\A d \in DocObjs :
             /\ trail[d] = <<>> => state[d] = "Draft"
             /\ state[d] \in {"Draft", "Review", "Publish"}
             /\ state[d] = "Publish" => WriteThenRead(d))
    /\ [](lastCall.op = "print" =>
             (out = <<"You doc has published">> <=> state[lastCall.target] = "Publish"))
    /\ [][lastCall'.op \in DocOps =>
             /\ state' = [state EXCEPT ![lastCall'.target] =
                              ClaimedNext(@, lastCall'.op)]
             /\ \A d \in DocObjs : state[d] = "Publish" => state'[d] = "Publish"]_vars

\* doc1 was written, read and then printed as published, while a read() and a
\* print() on doc2 left it in Draft
C26_Witness ==
    /\ trail["doc1"] = <<"write", "read", "print">>
    /\ trail["doc2"] = <<"read", "print">>
    /\ state["doc1"] = "Publish"
    /\ state["doc2"] = "Draft"
    /\ lastCall = CallOf("print", "doc1", "none")
    /\ out = <<"You doc has published">>

(***************************************************************************)
(* Memento: Database, Momento and CareTaker.                               *)
(***************************************************************************)
MementoIds == {1, 2}
MementoNames == {"Satendra", "Satendra K"}

\* new Momento(id, name)
NewMomento(id, nm) == [id |-> id, name |-> nm]

\* CareTaker.addMomento: this.database.push(momento)
CareTakerAddMomento(db, momento) == Append(db, momento)

\* what getMomento hands back: the error it threw ("none" if it returned),
\* and the value returned, which is undefined when defined is FALSE
Got(e, defined, momento) == [err |-> e, defined |-> defined, momento |-> momento]
NoMomento == [id |-> 0, name |-> "undefined"]

\* CareTaker.getMomento(state): throws when state > this.database.length,
\* otherwise returns this.database[state] (zero-based; undefined outside the
\* array)
CareTakerGetMomento(db, k) ==
    IF k > Len(db) THEN Got("Error: This state doesn't exist", FALSE, NoMomento)
    ELSE IF k \in 0..(Len(db) - 1) THEN Got("none", TRUE, db[k + 1])
    ELSE Got("none", FALSE, NoMomento)

\* Database.updateData(id, name): the fields after it
DatabaseUpdateData(d, id, nm) == [id |-> id, name |-> nm]

\* Database.restoreData(state): the fields after it and the error that ended
\* it; reading momento.id of undefined is a TypeError
DatabaseRestoreData(d, db, k) ==
    LET r == CareTakerGetMomento(db, k) IN
    IF r.err # "none" THEN [data |-> d, err |-> r.err]
    ELSE IF ~r.defined THEN [data |-> d, err |-> "TypeError"]
    ELSE [data |-> [id |-> r.momento.id, name |-> r.momento.name], err |-> "none"]

\* const data1 = new Database(1, "Satendra")
InitMemento ==
    /\ data = [id |-> 1, name |-> "Satendra"]
    /\ careTaker = <<>>
    /\ lastCall = NoCall
    /\ ret = NoRet
    /\ out = <<>>
    /\ err = "none"
    /\ called = <<>>
    /\ childs = <<>>
    /\ size = <<>>
    /\ pc = 0
    /\ item = <<>>
    /\ currentStock = <<>>
    /\ action = <<>>
    /\ operations = <<>>
    /\ stockBefore = <<>>
    /\ prevCall = NoCall
    /\ ncalls = 0
    /\ IdleLogs /\ IdleState /\ IdleIter /\ IdleProxy

\* data1.updateData(id, name)
UpdateData ==
    \E id \in MementoIds, nm \in MementoNames :
        /\ Len(careTaker) < MaxUpdates
        /\ careTaker' = CareTakerAddMomento(careTaker, NewMomento(data.id, data.name))
        /\ data' = DatabaseUpdateData(data, id, nm)
        /\ lastCall' = CallOf("updateData", "data1", [id |-> id, name |-> nm])
        /\ called' = <<Invoked("careTaker", "addMomento")>>
        /\ out' = <<>>
        /\ ret' = NoRet
        /\ err' = "none"
        /\ UNCHANGED <<treeVars, visitorVars, cmdVars>>
        /\ UNCHANGED <<logsVars, stateVars, iterVars, proxyVars>>

\* data1.restoreData(k)
RestoreData ==
    \E k \in (0 - 1)..(MaxUpdates + 1) :
        LET r == DatabaseRestoreData(data, careTaker, k) IN
        /\ data' = r.data
        /\ err' = r.err
        /\ lastCall' = CallOf("restoreData", "data1", k)
        /\ called' = <<Invoked("careTaker", "getMomento")>>
        /\ out' = <<>>
        /\ ret' = NoRet
        /\ UNCHANGED <<careTaker, treeVars, visitorVars, cmdVars>>
        /\ UNCHANGED <<logsVars, stateVars, iterVars, proxyVars>>

\* data1.display()
Display ==
    /\ out' = <<[id |-> data.id, name |-> data.name]>>
    /\ lastCall' = CallOf("display", "data1", "none")
    /\ called' = <<>>
    /\ ret' = NoRet
    /\ err' = "none"
    /\ UNCHANGED <<data, careTaker, treeVars, visitorVars, cmdVars>>
    /\ UNCHANGED <<logsVars, stateVars, iterVars, proxyVars>>

NextMemento == UpdateData \/ RestoreData \/ Display

SpecMemento == InitMemento /\ [][NextMemento]_vars

\* C27 (as claimed): updateData stores the fields as they were just before it;
\* restoreData(k) with no k-th memento (k < 0 or k >= number stored) fails with
\* "Error: This state doesn't exist" and leaves id and name as they were, and
\* with a stored k it sets id and name to the k-th snapshot.
C27_RestoreOfMissingState ==
    [][/\ lastCall'.op = "updateData" =>
              careTaker' = Append(careTaker, [id |-> data.id, name |-> data.name])
       /\ (lastCall'.op = "restoreData"
              /\ (lastCall'.arg < 0 \/ lastCall'.arg >= Len(careTaker))) =>
              (err' = "Error: This state doesn't exist" /\ data' = data)
       /\ (lastCall'.op = "restoreData"
              /\ lastCall'.arg \in 0..(Len(careTaker) - 1)) =>
              (err' = "none" /\ data' = careTaker[lastCall'.arg + 1]
                  /\ careTaker' = careTaker)]_vars

(***************************************************************************)
(* Chain of Responsibility: ThousandNote -> FiveHundredNote -> HundredNote.*)
(* Amounts are integers.                                                   *)
(***************************************************************************)
NoteObjs == {"thousandNote", "fiveHundredNote", "hundredNote"}

\* the chain the client code builds with notesHandler; hundredNote.next is
\* never set
next == [h \in NoteObjs |->
           CASE h = "thousandNote" -> "fiveHundredNote"
             [] h = "fiveHundredNote" -> "hundredNote"
             [] h = "hundredNote" -> "undefined"]

\* amount % n of the language: the remainder has the sign of the dividend
JsRem(a, n) == IF a >= 0 THEN a % n ELSE 0 - ((0 - a) % n)

\* the amounts asked: the multiples of 50 from -150 on and their neighbours,
\* and the client's 5600
Amounts ==
    {a \in (0 - 150)..MaxAmount : JsRem(a, 50) \in {0, 1, 49, 0 - 1, 0 - 49}} \cup {5600}

\* Math.floor(amount / n)
MathFloorDiv(a, n) == a \div n

\* console.log("Dispensing cash of <note> *", count)
NoteLine(note, count) == [note |-> note, count |-> count]

\* what a dispense call leaves behind: the lines logged, the dispense calls
\* made (this one first) and the error thrown
Dispensed(lines, calls, e) == [lines |-> lines, calls |-> calls, err |-> e]
DispenseCall(h, amount) == [object |-> h, method |-> "dispense", arg |-> amount]

RECURSIVE dispense(_, _)

\* ThousandNote.dispense
ThousandNoteDispense(h, amount) ==
    LET rem == JsRem(amount, 1000)
        line == NoteLine(1000, MathFloorDiv(amount, 1000))
    IN IF rem # 0 /\ next[h] # "undefined"
       THEN LET r == dispense(next[h], rem) IN
            Dispensed(<<line>> \o r.lines, <<DispenseCall(h, amount)>> \o r.calls, r.err)
       ELSE Dispensed(<<line>>, <<DispenseCall(h, amount)>>, "none")

\* mutant of FiveHundredNoteDispense: the whole amount is handed on, not the
\* remainder
FiveHundredNoteDispenseWhole(h, amount) ==
    LET rem == JsRem(amount, 500)
        line == NoteLine(500, MathFloorDiv(amount, 500))
    IN IF rem # 0 /\ next[h] # "undefined"
       THEN LET r == dispense(next[h], amount) IN
            Dispensed(<<line>> \o r.lines, <<DispenseCall(h, amount)>> \o r.calls, r.err)
       ELSE Dispensed(<<line>>, <<DispenseCall(h, amount)>>, "none")

\* FiveHundredNote.dispense
FiveHundredNoteDispense(h, amount) ==
    LET rem == JsRem(amount, 500)
        line == NoteLine(500, MathFloorDiv(amount, 500))
    IN IF rem # 0 /\ next[h] # "undefined"
       THEN LET r == dispense(next[h], rem) IN
            Dispensed(<<line>> \o r.lines, <<DispenseCall(h, amount)>> \o r.calls, r.err)
       ELSE Dispensed(<<line>>, <<DispenseCall(h, amount)>>, "none")

\* HundredNote.dispense
HundredNoteDispense(h, amount) ==
    LET rem == JsRem(amount, 100)
        line == NoteLine(100, MathFloorDiv(amount, 100))
    IN Dispensed(<<line>>, <<DispenseCall(h, amount)>>,
                 IF rem # 0 THEN "Insufficient Balance..." ELSE "none")

\* h.dispense(amount), dispatched on the class of h
dispense(h, amount) ==
    CASE h = "thousandNote" -> ThousandNoteDispense(h, amount)
      [] h = "fiveHundredNote" -> FiveHundredNoteDispense(h, amount)
      [] h = "hundredNote" -> HundredNoteDispense(h, amount)

InitChain ==
    /\ lastCall = NoCall
    /\ ret = NoRet
    /\ out = <<>>
    /\ err = "none"
    /\ called = <<>>
    /\ childs = <<>>
    /\ size = <<>>
    /\ pc = 0
    /\ item = <<>>
    /\ currentStock = <<>>
    /\ action = <<>>
    /\ operations = <<>>
    /\ stockBefore = <<>>
    /\ prevCall = NoCall
    /\ ncalls = 0
    /\ IdleLater

\* thousandNote.dispense(amount): the client code calls the head of the chain
Dispense ==
    \E amount \in Amounts :
        LET r == dispense("thousandNote", amount) IN
        /\ lastCall' = CallOf("dispense", "thousandNote", amount)
        /\ out' = r.lines
        /\ called' = r.calls
        /\ err' = r.err
        /\ ret' = NoRet
        /\ UNCHANGED <<treeVars, visitorVars, cmdVars, laterVars>>

NextChain == Dispense

SpecChain == InitChain /\ [][NextChain]_vars

\* the count reported for a note by the most recent call (0 if its handler
\* was not invoked)
CountOf(note) ==
    IF \E i \in DOMAIN out : out[i].note = note
    THEN out[CHOOSE i \in DOMAIN out : out[i].note = note].count
    ELSE 0

\* C28: dispense(amount) on the head with a non-negative multiple of 100 ends
\* without error and 1000 * c1000 + 500 * c500 + 100 * c100 = amount, each
\* note reported at most once; a handler after the head is invoked only with
\* a non-zero remainder; an amount that is not a multiple of 100 ends in
\* "Insufficient Balance...".
C28_ChainDispensesAmount ==
    (lastCall.op = "dispense" /\ lastCall.target = "thousandNote") =>
        /\ (lastCall.arg >= 0 /\ JsRem(lastCall.arg, 100) = 0) =>
              /\ err = "none"
              /\ 1000 * CountOf(1000) + 500 * CountOf(500) + 100 * CountOf(100)
                     = lastCall.arg
              /\ \A i, j \in DOMAIN out : out[i].note = out[j].note => i = j
        /\ called[1] = DispenseCall("thousandNote", lastCall.arg)
        /\ Len(called) = Len(out)
        /\ \A i \in DOMAIN called : i > 1 =>
              /\ called[i].arg # 0
              /\ called[i].object = next[called[i - 1].object]
        /\ JsRem(lastCall.arg, 100) # 0 => err = "Insufficient Balance..."

\* the client's call thousandNote.dispense(5600): 1000 * 5, 500 * 1, 100 * 1
C28_Witness ==
    /\ lastCall = CallOf("dispense", "thousandNote", 5600)
    /\ out = <<NoteLine(1000, 5), NoteLine(500, 1), NoteLine(100, 1)>>
    /\ err = "none"

(***************************************************************************)
(* Iterator: ArrayIterators over a string array, and MusicPlayer.  The     *)
(* loop of playAllSongs is modelled turn by turn: nothing else runs        *)
(* between its turns, and a started loop keeps running (SpecIter states    *)
(* this as weak fairness of the loop's steps).                             *)
(***************************************************************************)
Songs == {"1.mp3", "2.mp3"}

\* new ArrayIterables(["1.mp3", "2.mp3", "3.mp3", "4.mp3"])
ClientSongs == <<"1.mp3", "2.mp3", "3.mp3", "4.mp3">>

Arrays == UNION {[1..n -> Songs] : n \in 0..MaxLen} \cup {ClientSongs}

\* this.arrayList[i] (zero-based): undefined outside the array
ElementAt(arr, i) == IF i + 1 \in DOMAIN arr THEN arr[i + 1] ELSE "undefined"

\* mutant of ArrayIteratorsHasNext: `<=` instead of `<`
ArrayIteratorsHasNextInclusive(arr, idx) == idx <= Len(arr)

\* ArrayIterators.hasNext
ArrayIteratorsHasNext(arr, idx) == idx < Len(arr)

\* ArrayIterators.nextt: the index after it and the line it logs (element is
\* TRUE when the line is an element of the array)
ArrayIteratorsNextt(arr, idx) ==
    IF ArrayIteratorsHasNext(arr, idx)
    THEN [index |-> idx + 1, line |-> [element |-> TRUE, text |-> ElementAt(arr, idx)]]
    ELSE [index |-> idx, line |-> [element |-> FALSE, text |-> "Array lenght exceeds.."]]

\* the elements logged so far, with the line of one more nextt
Emitting(line) == IF line.element THEN Append(emitted, line.text) ELSE emitted

\* const iter = songIterable.getIterator(): new ArrayIterators(this.arr)
InitIter ==
    /\ arrayList \in Arrays
    /\ index = 0
    /\ emitted = <<>>
    /\ playing = FALSE
    /\ lastCall = NoCall
    /\ ret = NoRet
    /\ out = <<>>
    /\ err = "none"
    /\ called = <<>>
    /\ childs = <<>>
    /\ size = <<>>
    /\ pc = 0
    /\ item = <<>>
    /\ currentStock = <<>>
    /\ action = <<>>
    /\ operations = <<>>
    /\ stockBefore = <<>>
    /\ prevCall = NoCall
    /\ ncalls = 0
    /\ IdleLogs /\ IdleState /\ IdleMemento /\ IdleProxy

\* iter.hasNext(), called by the client
HasNext ==
    /\ ~playing
    /\ ret' = Returned(ArrayIteratorsHasNext(arrayList, index))
    /\ lastCall' = CallOf("hasNext", "iter", "none")
    /\ out' = <<>>
    /\ called' = <<>>
    /\ err' = "none"
    /\ UNCHANGED <<iterVars, treeVars, visitorVars, cmdVars>>
    /\ UNCHANGED <<logsVars, stateVars, mementoVars, proxyVars>>

\* iter.nextt(), called by the client
Nextt ==
    LET r == ArrayIteratorsNextt(arrayList, index) IN
    /\ ~playing
    /\ index' = r.index
    /\ out' = <<r.line>>
    /\ emitted' = Emitting(r.line)
    /\ lastCall' = CallOf("nextt", "iter", "none")
    /\ ret' = NoRet
    /\ called' = <<Invoked("iter", "hasNext")>>
    /\ err' = "none"
    /\ UNCHANGED <<arrayList, playing, treeVars, visitorVars, cmdVars>>
    /\ UNCHANGED <<logsVars, stateVars, mementoVars, proxyVars>>

\* player.playAllSongs(iter): the call enters the method
PlayAllSongs ==
    /\ ~playing
    /\ playing' = TRUE
    /\ lastCall' = CallOf("playAllSongs", "player", "iter")
    /\ out' = <<>>
    /\ called' = <<>>
    /\ ret' = NoRet
    /\ err' = "none"
    /\ UNCHANGED <<arrayList, index, emitted, treeVars, visitorVars, cmdVars>>
    /\ UNCHANGED <<logsVars, stateVars, mementoVars, proxyVars>>

\* one turn of while (iter.hasNext()) { iter.nextt() }
PlayLoop ==
    LET r == ArrayIteratorsNextt(arrayList, index) IN
    /\ playing
    /\ ArrayIteratorsHasNext(arrayList, index)
    /\ index' = r.index
    /\ out' = Append(out, r.line)
    /\ emitted' = Emitting(r.line)
    /\ called' = called \o <<Invoked("iter", "hasNext"), Invoked("iter", "nextt")>>
    /\ UNCHANGED <<arrayList, playing, lastCall, ret, err>>
    /\ UNCHANGED <<treeVars, visitorVars, cmdVars>>
    /\ UNCHANGED <<logsVars, stateVars, mementoVars, proxyVars>>

\* the loop test fails and playAllSongs returns
PlayReturn ==
    /\ playing
    /\ ~ArrayIteratorsHasNext(arrayList, index)
    /\ playing' = FALSE
    /\ called' = Append(called, Invoked("iter", "hasNext"))
    /\ UNCHANGED <<arrayList, index, emitted, lastCall, ret, out, err>>
    /\ UNCHANGED <<treeVars, visitorVars, cmdVars>>
    /\ UNCHANGED <<logsVars, stateVars, mementoVars, proxyVars>>

NextIter == HasNext \/ Nextt \/ PlayAllSongs \/ PlayLoop \/ PlayReturn

SpecIter == InitIter /\ [][NextIter]_vars /\ WF_vars(PlayLoop \/ PlayReturn)

\* C29: the elements logged so far are the first `index` elements of the
\* array, in order, each position once; hasNext() is TRUE exactly while fewer
\* than n elements were logged; nextt() on an exhausted iterator logs no
\* element and leaves the index; a started playAllSongs returns, and when it
\* has returned all n elements have been logged.
C29_IteratorProtocol ==
    /\ [](/\ index \in 0..Len(arrayList)
          /\ emitted = SubSeq(arrayList, 1, index)
          /\ lastCall.op = "hasNext" =>
                ret = Returned(Len(emitted) < Len(arrayList))
          /\ (lastCall.op = "playAllSongs" /\ ~playing) =>
                (emitted = arrayList /\ index = Len(arrayList)))
    /\ [][(lastCall'.op = "nextt" /\ index = Len(arrayList)) =>
             /\ index' = index
             /\ emitted' = emitted
             /\ ~out'[1].element]_vars
    /\ [][(lastCall'.op = "nextt" /\ index < Len(arrayList)) =>
             /\ index' = index + 1
             /\ out' = <<[element |-> TRUE, text |-> arrayList[index + 1]]>>]_vars
    /\ (playing ~> ~playing)

\* playAllSongs has returned on the client's four songs after the client had
\* taken the first one with nextt()
C29_Witness ==
    /\ arrayList = ClientSongs
    /\ lastCall.op = "playAllSongs"
    /\ ~playing
    /\ Len(out) = 3
    /\ emitted = ClientSongs
    /\ index = 4

(***************************************************************************)
(* Proxy: DatabaseProxy over Database, DocumentReaderProxy over            *)
(* DocumentReader with the user's premium flag.                            *)
(***************************************************************************)
DbProxyObjs == {"newDatabase", "newDatabase2"}
ReaderObjs == {"reader", "reader2"}

\* a method invoked on a real object (named by its position in `constructed`)
RealCall(id, method) == [object |-> id, method |-> method]

\* what a proxy method leaves behind: the instance the proxy holds, the
\* objects constructed, the lines logged and the calls made on real objects
Proxied(held, made, lines, calls) ==
    [held |-> held, constructed |-> made, lines |-> lines, calls |-> calls]

\* mutant of DatabaseProxyFetchData: no `if (this.database == null)`, a new
\* Database is created on every call
DatabaseProxyFetchDataAlways(held, made) ==
    Proxied(Len(made) + 1, Append(made, "Database"),
            <<"Connection created successfully", "Data fetched successfully...">>,
            <<RealCall(Len(made) + 1, "fetchData")>>)

\* DatabaseProxy.fetchData
DatabaseProxyFetchData(held, made) ==
    IF held = 0
    THEN Proxied(Len(made) + 1, Append(made, "Database"),
                 <<"Connection created successfully", "Data fetched successfully...">>,
                 <<RealCall(Len(made) + 1, "fetchData")>>)
    ELSE Proxied(held, made, <<"Data fetched successfully...">>,
                 <<RealCall(held, "fetchData")>>)

\* DocumentReaderProxy.unlockPdf, premium being this.user.isUserPremium()
DocumentReaderProxyUnlockPdf(held, made, premium) ==
    IF premium
    THEN IF held = 0
         THEN Proxied(Len(made) + 1, Append(made, "DocumentReader"),
                      <<"Pdf unlocked successfully">>,
                      <<RealCall(Len(made) + 1, "unlockPdf")>>)
         ELSE Proxied(held, made, <<"Pdf unlocked successfully">>,
                      <<RealCall(held, "unlockPdf")>>)
    ELSE Proxied(held, made, <<"You are not authorised to access this">>, <<>>)

\* the constructors: no real object yet; the users are premium or not
InitProxy ==
    /\ database = [p \in DbProxyObjs |-> 0]
    /\ documentReader = [r \in ReaderObjs |-> 0]
    /\ isPremium \in [ReaderObjs -> BOOLEAN]
    /\ constructed = <<>>
    /\ lastCall = NoCall
    /\ ret = NoRet
    /\ out = <<>>
    /\ err = "none"
    /\ called = <<>>
    /\ childs = <<>>
    /\ size = <<>>
    /\ pc = 0
    /\ item = <<>>
    /\ currentStock = <<>>
    /\ action = <<>>
    /\ operations = <<>>
    /\ stockBefore = <<>>
    /\ prevCall = NoCall
    /\ ncalls = 0
    /\ IdleLogs /\ IdleState /\ IdleMemento /\ IdleIter

\* p.fetchData()
FetchData ==
    \E p \in DbProxyObjs :
        LET r == DatabaseProxyFetchData(database[p], constructed) IN
        /\ database' = [database EXCEPT ![p] = r.held]
        /\ constructed' = r.constructed
        /\ out' = r.lines
        /\ called' = r.calls
        /\ lastCall' = CallOf("fetchData", p, "none")
        /\ ret' = NoRet
        /\ err' = "none"
        /\ UNCHANGED <<documentReader, isPremium, treeVars, visitorVars, cmdVars>>
        /\ UNCHANGED <<logsVars, stateVars, mementoVars, iterVars>>

\* r.unlockPdf()
UnlockPdf ==
    \E rd \in ReaderObjs :
        LET r == DocumentReaderProxyUnlockPdf(documentReader[rd], constructed,
                                              isPremium[rd]) IN
        /\ documentReader' = [documentReader EXCEPT ![rd] = r.held]
        /\ constructed' = r.constructed
        /\ out' = r.lines
        /\ called' = r.calls
        /\ lastCall' = CallOf("unlockPdf", rd, "none")
        /\ ret' = NoRet
        /\ err' = "none"
        /\ UNCHANGED <<database, isPremium, treeVars, visitorVars, cmdVars>>
        /\ UNCHANGED <<logsVars, stateVars, mementoVars, iterVars>>

\* the host program changes the public field isPremium of a reader's user
SetPremium ==
    \E rd \in ReaderObjs, b \in BOOLEAN :
        /\ isPremium' = [isPremium EXCEPT ![rd] = b]
        /\ lastCall' = CallOf("setPremium", rd, b)
        /\ out' = <<>>
        /\ called' = <<>>
        /\ ret' = NoRet
        /\ err' = "none"
        /\ UNCHANGED <<database, documentReader, constructed>>
        /\ UNCHANGED <<treeVars, visitorVars, cmdVars>>
        /\ UNCHANGED <<logsVars, stateVars, mementoVars, iterVars>>

NextProxy == FetchData \/ UnlockPdf \/ SetPremium

SpecProxy == InitProxy /\ [][NextProxy]_vars

\* how many objects of a class were constructed
Made(class) == Cardinality({i \in DOMAIN constructed : constructed[i] = class})

\* C30: a DatabaseProxy creates its Database on the first fetchData (it holds
\* none before) and never again, reports the connection only then, and hands
\* every fetchData to the instance it holds, which never changes; unlockPdf
\* with a non-premium user constructs nothing and calls no real object, and
\* with a premium user it calls unlockPdf on the DocumentReader it holds.
C30_ProxyGuards ==
    /\ [](Made("Database") = Cardinality({p \in DbProxyObjs : database[p] # 0}))
    /\ [][lastCall'.op = "fetchData" =>
             /\ database[lastCall'.target] = 0 =>
                   /\ constructed' = Append(constructed, "Database")
                   /\ out'[1] = "Connection created successfully"
             /\ database[lastCall'.target] # 0 =>
                   /\ constructed' = constructed
                   /\ \A i \in DOMAIN out' : out'[i] # "Connection created successfully"
             /\ database'[lastCall'.target] # 0
             /\ constructed'[database'[lastCall'.target]] = "Database"
             /\ called' = <<RealCall(database'[lastCall'.target], "fetchData")>>]_vars
    /\ [][\A p \in DbProxyObjs : database[p] # 0 => database'[p] = database[p]]_vars
    /\ [][lastCall'.op = "unlockPdf" =>
             /\ ~isPremium[lastCall'.target] =>
                   /\ constructed' = constructed
                   /\ documentReader' = documentReader
                   /\ called' = <<>>
             /\ isPremium[lastCall'.target] =>
                   /\ documentReader'[lastCall'.target] # 0
                   /\ constructed'[documentReader'[lastCall'.target]] = "DocumentReader"
                   /\ called' = <<RealCall(documentReader'[lastCall'.target],
                                           "unlockPdf")>>]_vars

\* the second fetchData on a proxy went to the Database made by the first,
\* while a reader whose user is not premium was refused and holds no reader
C30_Witness ==
    /\ lastCall = CallOf("fetchData", "newDatabase", "none")
    /\ out = <<"Data fetched successfully...">>
    /\ called = <<RealCall(database["newDatabase"], "fetchData")>>
    /\ Made("Database") = 1
    /\ ~isPremium["reader"]
    /\ documentReader["reader"] = 0
    /\ documentReader["reader2"] # 0

====
